---- MODULE Spec2Model ----
(***************************************************************************)
(* A model of lesson3/homework/json_parser.py: the grammar compiler        *)
(* (grammar, split), the memo decorator and the PEG interpreter (parse,    *)
(* parse_sequence, parse_atom).                                            *)
(*                                                                         *)
(* A Python str is a sequence of one-character strings.  None is the       *)
(* sequence <<"None">>, which is no str (its element is not a character).  *)
(***************************************************************************)
EXTENDS Integers, Sequences, FiniteSets, TLC

\* ------------------------------------------------------------------ bounds
MaxLines == 3
MaxText == 3
MaxSeriesText == 2
MaxDepth == 7
MaxCalls == 2
MaxSteps == 60

\* ------------------------------------------------------------ Python values
None == <<"None">>
SP == " "
TAB == "\t"
NL == "\n"
Whitespace == {SP, TAB, NL}

\* str.replace('\t', ' ')
ReplaceTabs(s) == [i \in 1..Len(s) |-> IF s[i] = TAB THEN SP ELSE s[i]]

\* s[i:] for a 0-based offset i
Slice(s, i) == SubSeq(s, i + 1, Len(s))

\* str.startswith(p) at 0-based offset i
StartsAt(s, p, i) ==
    /\ i + Len(p) <= Len(s)
    /\ \A k \in 1..Len(p) : s[i + k] = p[k]

RECURSIVE LStrip(_)
LStrip(s) ==
    IF s # <<>> /\ Head(s) \in Whitespace THEN LStrip(Tail(s)) ELSE s

RECURSIVE RStrip(_)
RStrip(s) ==
    IF s # <<>> /\ s[Len(s)] \in Whitespace
    THEN RStrip(SubSeq(s, 1, Len(s) - 1))
    ELSE s

\* str.strip()
Strip(s) == RStrip(LStrip(s))

\* str.find(sep): the 0-based offset of the first occurrence, -1 if none
RECURSIVE FindFrom(_, _, _)
FindFrom(s, sep, i) ==
    IF i + Len(sep) > Len(s) THEN -1
    ELSE IF StartsAt(s, sep, i) THEN i
    ELSE FindFrom(s, sep, i + 1)

\* str.split(sep, maxsplit) for a given separator: pieces may be empty
RECURSIVE SplitSep(_, _, _)
SplitSep(s, sep, maxsplit) ==
    LET at == FindFrom(s, sep, 0) IN
    IF maxsplit = 0 \/ at = -1 THEN <<s>>
    ELSE <<SubSeq(s, 1, at)>>
         \o SplitSep(Slice(s, at + Len(sep)), sep,
                     IF maxsplit < 0 THEN maxsplit ELSE maxsplit - 1)

\* str.split(None): runs of whitespace separate, no empty piece is produced
RECURSIVE SplitWs(_, _)
SplitWs(s, word) ==
    IF s = <<>> THEN (IF word = <<>> THEN <<>> ELSE <<word>>)
    ELSE IF Head(s) \in Whitespace
         THEN (IF word = <<>> THEN <<>> ELSE <<word>>) \o SplitWs(Tail(s), <<>>)
         ELSE SplitWs(Tail(s), Append(word, Head(s)))

\* str.split(sep, maxsplit), sep None or a str
StrSplit(s, sep, maxsplit) ==
    IF sep = None THEN SplitWs(s, <<>>) ELSE SplitSep(s, sep, maxsplit)

\* [t.strip() for t in pieces if t]
RECURSIVE StripEach(_)
StripEach(pieces) ==
    IF pieces = <<>> THEN <<>>
    ELSE IF Head(pieces) = <<>> THEN StripEach(Tail(pieces))
    ELSE <<Strip(Head(pieces))>> \o StripEach(Tail(pieces))

\* split(text, sep, maxsplit)
split(t, sep, maxsplit) == StripEach(StrSplit(Strip(t), sep, maxsplit))

\* ------------------------------------------------------- grammar compiler
\* How a call ends: it returns a value or raises an exception.
Return(v) == [raised |-> "", value |-> v]
Raise(e) == [raised |-> e, value |-> <<>>]

RuleSep == <<SP, "=", ">", SP>>
AltSep == <<SP, "|", SP>>
WhitespaceKey == <<SP>>
DefaultWhitespace == <<"\\", "s", "*">>

\* g[key] = v
Store(g, key, v) ==
    [k \in DOMAIN g \cup {key} |-> IF k = key THEN v ELSE g[k]]

\* split(description, '\n')
DescriptionLines(description) == split(description, <<NL>>, -1)

\* (mutant of Alternatives: the right-hand side is split at whitespace)
Alternatives_AtWhitespace(rhs) == split(rhs, None, -1)

\* split(rhs, ' | ')
Alternatives(rhs) == split(rhs, AltSep, -1)

\* tuple(map(split, alternatives))
AtomsOf(alternatives) ==
    [i \in 1..Len(alternatives) |-> split(alternatives[i], None, -1)]

\* (mutant of RuleStep: a line that does not unpack is skipped)
RuleStep_Skip(g, line) ==
    LET pieces == split(line, RuleSep, 1) IN
    IF Len(pieces) # 2 THEN [raised |-> "", value |-> g]
    ELSE [raised |-> "",
          value |-> [k \in DOMAIN g \cup {pieces[1]} |->
                       IF k = pieces[1]
                       THEN [i \in 1..Len(split(pieces[2], AltSep, -1)) |->
                               split(split(pieces[2], AltSep, -1)[i], None, -1)]
                       ELSE g[k]]]

\* One turn of the loop of grammar(): lhs, rhs = split(line, ' => ', 1)
\* raises ValueError unless split returns exactly two pieces.
RuleStep(g, line) ==
    LET pieces == split(line, RuleSep, 1) IN
    IF Len(pieces) # 2 THEN Raise("ValueError")
    ELSE Return(Store(g, pieces[1], AtomsOf(Alternatives(pieces[2]))))

RECURSIVE RuleLoop(_, _)
RuleLoop(g, ls) ==
    IF ls = <<>> THEN Return(g)
    ELSE LET r == RuleStep(g, Head(ls)) IN
         IF r.raised # "" THEN r ELSE RuleLoop(r.value, Tail(ls))

\* grammar(description, whitespace)
grammar(description, whitespace) ==
    RuleLoop([k \in {WhitespaceKey} |-> whitespace],
             DescriptionLines(ReplaceTabs(description)))

\* ------------------------------------------------------ regular expressions
\* The patterns of the model are sequences of items, an item being a unit (a
\* literal character, '.', or the class \s) with an optional quantifier
\* (*, +, ?).  They hold no parentheses and no alternation, so that in
\* whitespace + '(' + atom + ')' group 1 is the atom.
Quantifiers == {"*", "+", "?"}

\* re's parse of a pattern into items
RECURSIVE RegexItems(_)
RegexItems(p) ==
    IF p = <<>> THEN <<>>
    ELSE LET n == IF Head(p) = "\\" THEN 2 ELSE 1
             unit == SubSeq(p, 1, n)
             rest == Slice(p, n)
             q == IF rest # <<>> /\ Head(rest) \in Quantifiers
                  THEN Head(rest) ELSE ""
         IN <<[unit |-> unit, quant |-> q]>>
            \o RegexItems(IF q = "" THEN rest ELSE Tail(rest))

\* whether a unit matches the character c
UnitMatches(unit, c) ==
    IF unit = <<"\\", "s">> THEN c \in Whitespace
    ELSE IF unit = <<".">> THEN c # NL
    ELSE c = unit[1]

\* the number of characters from offset pos on that the unit matches in a row
RECURSIVE Run(_, _, _)
Run(unit, s, pos) ==
    IF pos < Len(s) /\ UnitMatches(unit, s[pos + 1])
    THEN 1 + Run(unit, s, pos + 1)
    ELSE 0

\* the repetition counts a quantified item tries, in the order re tries them
\* (greedy: the most first)
RECURSIVE Down(_, _)
Down(hi, lo) == IF hi < lo THEN <<>> ELSE <<hi>> \o Down(hi - 1, lo)

Counts(item, s, pos) ==
    LET n == Run(item.unit, s, pos) IN
    IF item.quant = "*" THEN Down(n, 0)
    ELSE IF item.quant = "+" THEN Down(n, 1)
    ELSE IF item.quant = "?" THEN Down(IF n > 1 THEN 1 ELSE n, 0)
    ELSE IF n >= 1 THEN <<1>> ELSE <<>>

\* the end offsets of the matches of items at offset pos, in re's
\* backtracking order
RECURSIVE Ends(_, _, _)
RECURSIVE EndsEach(_, _, _, _)
Ends(items, s, pos) ==
    IF items = <<>> THEN <<pos>>
    ELSE EndsEach(Counts(Head(items), s, pos), Tail(items), s, pos)
EndsEach(counts, items, s, pos) ==
    IF counts = <<>> THEN <<>>
    ELSE Ends(items, s, pos + Head(counts)) \o EndsEach(Tail(counts), items, s, pos)

\* grammar[' '] + '(%s)', and tokenizer % atom
Tokenizer(g) == g[WhitespaceKey] \o <<"(", "%", "s", ")">>
Format(tokenizer, atom) ==
    LET at == FindFrom(tokenizer, <<"%", "s">>, 0) IN
    SubSeq(tokenizer, 1, at) \o atom \o Slice(tokenizer, at + 2)

\* re.match(pattern, text) for a pattern prefix + '(' + group + ')': no match
\* (re.match's None), or the match with the span of group 1 and its end
NoMatch == [start1 |-> -1, end |-> -1]

FirstGroupMatch(starts, group, s) ==
    LET ok == {i \in 1..Len(starts) : Ends(group, s, starts[i]) # <<>>} IN
    IF ok = {} THEN NoMatch
    ELSE LET i == CHOOSE j \in ok : \A k \in ok : j <= k IN
         [start1 |-> starts[i], end |-> Head(Ends(group, s, starts[i]))]

ReMatch(pattern, s) ==
    LET open == FindFrom(pattern, <<"(">>, 0)
        prefix == RegexItems(SubSeq(pattern, 1, open))
        group == RegexItems(SubSeq(pattern, open + 2, Len(pattern) - 1))
    IN FirstGroupMatch(Ends(prefix, s, 0), group, s)

\* m.group(1)
Group1(m, s) == SubSeq(s, m.start1 + 1, m.end)

\* ------------------------------------------------------------ parse trees
\* A tree is written as Python writes it, character by character: a str in
\* quotes, a list in brackets holding its elements one after the other.
Quoted(s) == <<"'">> \o s \o <<"'">>
EmptyList == <<"[", "]">>
Elements(list) == SubSeq(list, 2, Len(list) - 1)
\* list + list
ListConcat(a, b) == <<"[">> \o Elements(a) \o Elements(b) \o <<"]">>
\* [x]
ListOf(x) == <<"[">> \o x \o <<"]">>

Fail == <<None, None>>

\* ----------------------------------------------- parse, without the memo
\* return [atom]+tree, rem
NodeResult(atom, tree, rem) == <<ListConcat(ListOf(Quoted(atom)), tree), rem>>

\* (mutants of Remainder: the remainder behind group 1 alone, with the
\* whitespace left in; the text from the start of the match)
Remainder_GroupOnly(m, text) == Slice(text, m.end - m.start1)
Remainder_FromStart(m, text) == text

\* text[m.end():]
Remainder(m, text) == Slice(text, m.end)

\* parse_atom's else branch: a terminal
TerminalResult(g, atom, text) ==
    LET m == ReMatch(Format(Tokenizer(g), atom), text) IN
    IF m = NoMatch THEN Fail ELSE <<Quoted(Group1(m, text)), Remainder(m, text)>>

\* (mutant of AlternativeAt: the alternatives tried last first)
AlternativeAt_Reversed(g, atom, i) == g[atom][Len(g[atom]) - i + 1]

\* for alternative in grammar[atom]: the i-th alternative tried
AlternativeAt(g, atom, i) == g[atom][i]

\* (mutant of SequenceFail: the trees parsed so far are returned)
SequenceFail_Partial(result) == <<result, None>>

\* if text is None: return Fail
SequenceFail(result) == Fail

\* The functions as Python runs them when parse_atom is not memoized; depth
\* counts the calls of parse_atom on the stack, this one included, and a call
\* deeper than MaxDepth exhausts the recursion.
RECURSIVE DirectAtom(_, _, _, _)
RECURSIVE DirectAlternatives(_, _, _, _, _)
RECURSIVE DirectSequence(_, _, _, _, _, _)
DirectAtom(g, atom, text, depth) ==
    IF depth > MaxDepth THEN Raise("RecursionError")
    ELSE IF atom \in DOMAIN g THEN DirectAlternatives(g, atom, text, 1, depth)
    ELSE Return(TerminalResult(g, atom, text))
DirectAlternatives(g, atom, text, i, depth) ==
    IF i > Len(g[atom]) THEN Return(Fail)
    ELSE LET r == DirectSequence(g, AlternativeAt(g, atom, i), 1, text,
                                 EmptyList, depth)
         IN IF r.raised # "" THEN r
            ELSE IF r.value[2] # None
                 THEN Return(NodeResult(atom, r.value[1], r.value[2]))
                 ELSE DirectAlternatives(g, atom, text, i + 1, depth)
DirectSequence(g, sequence, k, text, result, depth) ==
    IF k > Len(sequence) THEN Return(<<result, text>>)
    ELSE LET r == DirectAtom(g, sequence[k], text, depth + 1) IN
         IF r.raised # "" THEN r
         ELSE IF r.value[2] = None THEN Return(SequenceFail(result))
         ELSE DirectSequence(g, sequence, k + 1, r.value[2],
                             ListConcat(result, ListOf(r.value[1])), depth)

\* --------------------------------------------------------------- inputs
\* A line of a description: a rule (symbol, alternatives, each a sequence of
\* atoms) written with or without indentation, with spaces or tabs, or a line
\* taken as it is.
Join(pieces, sep) ==
    LET RECURSIVE J(_)
        J(ps) == IF ps = <<>> THEN <<>>
                 ELSE IF Len(ps) = 1 THEN Head(ps)
                 ELSE Head(ps) \o sep \o J(Tail(ps))
    IN J(pieces)

RuleText(l) ==
    LET alts == [i \in 1..Len(l.alts) |-> Join(l.alts[i], <<SP>>)]
        spaced == l.indent \o l.lhs \o RuleSep \o Join(alts, AltSep)
    IN IF l.tabs THEN [i \in 1..Len(spaced) |->
                          IF spaced[i] = SP THEN TAB ELSE spaced[i]]
       ELSE spaced

\* the characters of line l
LineText(l) == IF l.kind = "rule" THEN RuleText(l) ELSE l.text

\* the description holding the lines ls, one per line
Description(ls) == Join([i \in 1..Len(ls) |-> LineText(ls[i])], <<NL>>)

Rule(lhs, alts) ==
    [kind |-> "rule", lhs |-> lhs, alts |-> alts, indent |-> <<>>,
     tabs |-> FALSE, text |-> <<>>]

\* a line that is no rule, given by its characters
TextLine(kind, text) ==
    [kind |-> kind, lhs |-> <<>>, alts |-> <<>>, indent |-> <<>>,
     tabs |-> FALSE, text |-> text]

\* The grammars parse is called with, each compiled from its description.
SymE == <<"E">>
SymF == <<"F">>
AtomA == <<"a">>
AtomB == <<"b">>
Compiled(ls) == grammar(Description(ls), DefaultWhitespace).value

Grammars ==
    { Compiled(<<Rule(SymE, <<<<AtomA, SymE>>, <<AtomA>>>>)>>),
      Compiled(<<Rule(SymE, <<<<AtomA>>, <<AtomA, AtomB>>>>)>>),
      Compiled(<<Rule(SymE, <<<<SymE, AtomA>>, <<AtomB>>>>)>>),
      Compiled(<<Rule(SymE, <<<<<<"a", "?">>, SymE>>, <<AtomB>>>>)>>),
      Compiled(<<Rule(SymE, <<<<SymF, AtomA>>, <<SymF, AtomB>>>>),
                 Rule(SymF, <<<<AtomA, AtomB>>, <<<<".">>>>>>)>>),
      Compiled(<<Rule(SymE, <<<<AtomB>>, <<SymF, AtomA>>>>),
                 Rule(SymF, <<<<SymE>>>>)>>) }

\* The lines descriptions are written with.  A rule has one alternative, two,
\* or three groups of which the middle one is empty ("a |  | b"); it is
\* written plainly, or indented and with tabs for spaces.
RuleAlternatives ==
    { <<<<AtomA>>>>,
      <<<<AtomA, SymE>>, <<AtomB>>>>,
      <<<<AtomA>>, <<>>, <<AtomB>>>> }

RuleLines ==
    { [Rule(lhs, alts) EXCEPT !.indent = IF tabs THEN <<SP>> ELSE <<>>,
                              !.tabs = tabs] :
        lhs \in {SymE, SymF}, alts \in RuleAlternatives, tabs \in BOOLEAN }

\* empty, or of whitespace only
BlankLines == { TextLine("blank", t) : t \in {<<>>, <<SP>>, <<TAB>>} }

\* "E a" has no ' => ', "E => " has nothing to the right of it
MalformedLines ==
    { TextLine("malformed", t) :
        t \in { <<"E", SP, "a">>, SymE \o RuleSep } }

Starts == {SymE, SymF, <<"b", "*">>}
Alphabet == {"a", "b", SP}
TextsTo(len) == UNION {[1..n -> Alphabet] : n \in 0..len}
Texts == TextsTo(MaxText)
SeriesTexts == TextsTo(MaxSeriesText)

\* ------------------------------------------------------------------ state
VARIABLES
    lines,      \* the lines of the description given to grammar()
    compiled,   \* how grammar() ended on them
    calls,      \* the calls of parse made so far (counted up to MaxCalls)
    args,       \* the arguments of the running (or last) call of parse
    stack,      \* the frames of parse_atom and parse_sequence, the top last
    call,       \* the call of the memoized parse_atom about to be looked up
    ret,        \* the value being returned to the frame on top
    cache,      \* the cache of memo, of this call of parse
    status,     \* idle, running, returned or raised
    result,     \* what parse returned, or the exception it raised
    steps       \* the steps the running call has taken (counted up to MaxSteps)

vars == <<lines, compiled, calls, args, stack, call, ret, cache, status, result,
          steps>>
parseVars == <<calls, args, stack, call, ret, cache, status, result, steps>>
grammarVars == <<lines, compiled>>

NoCall == <<>>
NoValue == <<>>
NotCompiled == [raised |-> "none", value |-> <<>>]

Init ==
    /\ lines = <<>>
    /\ compiled = NotCompiled
    /\ calls = 0
    /\ args = [start |-> <<>>, text |-> <<>>, hashable |-> TRUE,
               grammar |-> [k \in {WhitespaceKey} |-> DefaultWhitespace]]
    /\ stack = <<>>
    /\ call = NoCall
    /\ ret = NoValue
    /\ cache = <<>>
    /\ status = "idle"
    /\ result = NoValue
    /\ steps = 0

\* ------------------------------------------------------------ memo, parse
\* (mutant of FreshCache: one cache for all calls of parse)
FreshCache_Shared(old) == old

\* cache = {}: parse_atom is defined, and decorated, anew by every call of
\* parse, so every call of parse has a cache of its own
FreshCache(old) == <<>>

\* (mutant of MemoKey: the text is left out of the key)
MemoKey_AtomOnly(atom, text) == <<atom, <<>>>>

\* cache[args]: the key is the tuple of the call's arguments
MemoKey(atom, text) == <<atom, text>>

\* cache[args] = result
MemoStore(c, key, r) == [k \in DOMAIN c \cup {key} |-> IF k = key THEN r ELSE c[k]]

\* f(args) of the TypeError branch: the arguments f is called with
FallbackArguments(argv) == <<argv>>

\* def parse_atom(atom, text)
ParseAtomArity == 2

Top == stack[Len(stack)]
Pop == SubSeq(stack, 1, Len(stack) - 1)
ReplaceTop(f) == [stack EXCEPT ![Len(stack)] = f]
G == args.grammar
Running == status = "running"
Tick == IF steps < MaxSteps THEN steps + 1 ELSE steps
AtTop(fn) == stack # <<>> /\ Top.fn = fn
\* the calls of parse_atom on the stack (each with its parse_sequence)
AtomDepth == Cardinality({i \in 1..Len(stack) : stack[i].fn = "parse_atom"})

\* parse(start_symbol, text, grammar): parse_atom(start_symbol, text)
Enter(start, text, g, hashable) ==
    /\ status # "running"
    /\ calls' = IF calls < MaxCalls THEN calls + 1 ELSE calls
    /\ args' = [start |-> start, text |-> text, grammar |-> g,
                hashable |-> hashable]
    /\ cache' = FreshCache(cache)
    /\ stack' = <<>>
    /\ call' = [atom |-> start, text |-> text, hashable |-> hashable]
    /\ ret' = NoValue
    /\ status' = "running"
    /\ result' = NoValue
    /\ steps' = 0
    /\ UNCHANGED grammarVars

\* the first call of parse
Call ==
    /\ calls = 0
    /\ \E start \in Starts, text \in Texts, g \in Grammars :
          Enter(start, text, g, TRUE)

\* a call of parse, the first or one after others
CallInSeries ==
    \E start \in Starts, text \in SeriesTexts, g \in Grammars :
        Enter(start, text, g, TRUE)

\* a first call with a text that cannot be hashed (an instance of a subclass
\* of str that sets __hash__ to None)
CallUnhashable ==
    /\ calls = 0
    /\ \E start \in Starts, text \in Texts, g \in Grammars :
          Enter(start, text, g, FALSE)

\* _f: return cache[args]
MemoHit ==
    /\ Running /\ call # NoCall /\ call.hashable
    /\ MemoKey(call.atom, call.text) \in DOMAIN cache
    /\ ret' = cache[MemoKey(call.atom, call.text)]
    /\ call' = NoCall
    /\ steps' = Tick
    /\ UNCHANGED <<grammarVars, calls, args, stack, cache, status, result>>

Miss ==
    /\ Running /\ call # NoCall /\ call.hashable
    /\ MemoKey(call.atom, call.text) \notin DOMAIN cache

\* _f: except KeyError, f(*args) with a non-terminal: parse_atom starts its loop
EnterNonTerminal ==
    /\ Miss /\ AtomDepth < MaxDepth
    /\ call.atom \in DOMAIN G
    /\ stack' = Append(stack, [fn |-> "parse_atom", atom |-> call.atom,
                               text |-> call.text, alt |-> 1])
    /\ call' = NoCall
    /\ steps' = Tick
    /\ UNCHANGED <<grammarVars, calls, args, ret, cache, status, result>>

\* _f: except KeyError, f(*args) with a terminal: the match, cached and returned
MatchTerminal ==
    /\ Miss /\ AtomDepth < MaxDepth
    /\ call.atom \notin DOMAIN G
    /\ LET r == TerminalResult(G, call.atom, call.text) IN
         /\ cache' = MemoStore(cache, MemoKey(call.atom, call.text), r)
         /\ ret' = r
    /\ call' = NoCall
    /\ steps' = Tick
    /\ UNCHANGED <<grammarVars, calls, args, stack, status, result>>

\* a call of parse_atom deeper than the stack allows: RecursionError, which
\* nothing catches
Exhaust ==
    /\ Miss /\ AtomDepth >= MaxDepth
    /\ status' = "raised"
    /\ result' = <<"RecursionError">>
    /\ call' = NoCall
    /\ stack' = <<>>
    /\ steps' = Tick
    /\ UNCHANGED <<grammarVars, calls, args, ret, cache>>

\* _f: except TypeError: return f(args), one argument where parse_atom takes two
MemoFallback ==
    /\ Running /\ call # NoCall /\ ~call.hashable
    /\ Len(FallbackArguments(<<call.atom, call.text>>)) # ParseAtomArity
    /\ status' = "raised"
    /\ result' = <<"TypeError">>
    /\ call' = NoCall
    /\ stack' = <<>>
    /\ steps' = Tick
    /\ UNCHANGED <<grammarVars, calls, args, ret, cache>>

\* parse_atom: for alternative in grammar[atom]: parse_sequence(alternative, text)
TryAlternative ==
    /\ Running /\ call = NoCall /\ ret = NoValue /\ AtTop("parse_atom")
    /\ Top.alt <= Len(G[Top.atom])
    /\ stack' = Append(stack, [fn |-> "parse_sequence",
                               sequence |-> AlternativeAt(G, Top.atom, Top.alt),
                               k |-> 1, text |-> Top.text, result |-> EmptyList])
    /\ steps' = Tick
    /\ UNCHANGED <<grammarVars, calls, args, call, ret, cache, status, result>>

\* parse_atom: the loop is over, return Fail (cached by _f)
AllAlternativesFail ==
    /\ Running /\ call = NoCall /\ ret = NoValue /\ AtTop("parse_atom")
    /\ Top.alt > Len(G[Top.atom])
    /\ cache' = MemoStore(cache, MemoKey(Top.atom, Top.text), Fail)
    /\ ret' = Fail
    /\ stack' = Pop
    /\ steps' = Tick
    /\ UNCHANGED <<grammarVars, calls, args, call, status, result>>

\* parse_atom: tree, rem = parse_sequence(...); if rem is not None: return
\* [atom]+tree, rem (cached by _f)
AlternativeSucceeds ==
    /\ Running /\ call = NoCall /\ ret # NoValue /\ AtTop("parse_atom")
    /\ ret[2] # None
    /\ LET r == NodeResult(Top.atom, ret[1], ret[2]) IN
         /\ cache' = MemoStore(cache, MemoKey(Top.atom, Top.text), r)
         /\ ret' = r
    /\ stack' = Pop
    /\ steps' = Tick
    /\ UNCHANGED <<grammarVars, calls, args, call, status, result>>

\* parse_atom: rem is None, on to the next alternative
AlternativeFails ==
    /\ Running /\ call = NoCall /\ ret # NoValue /\ AtTop("parse_atom")
    /\ ret[2] = None
    /\ stack' = ReplaceTop([Top EXCEPT !.alt = @ + 1])
    /\ ret' = NoValue
    /\ steps' = Tick
    /\ UNCHANGED <<grammarVars, calls, args, call, cache, status, result>>

\* parse_sequence: for atom in sequence: parse_atom(atom, text)
SequenceCall ==
    /\ Running /\ call = NoCall /\ ret = NoValue /\ AtTop("parse_sequence")
    /\ Top.k <= Len(Top.sequence)
    /\ call' = [atom |-> Top.sequence[Top.k], text |-> Top.text, hashable |-> TRUE]
    /\ steps' = Tick
    /\ UNCHANGED <<grammarVars, calls, args, stack, ret, cache, status, result>>

\* parse_sequence: return result, text
SequenceReturn ==
    /\ Running /\ call = NoCall /\ ret = NoValue /\ AtTop("parse_sequence")
    /\ Top.k > Len(Top.sequence)
    /\ ret' = <<Top.result, Top.text>>
    /\ stack' = Pop
    /\ steps' = Tick
    /\ UNCHANGED <<grammarVars, calls, args, call, cache, status, result>>

\* parse_sequence: tree, text = parse_atom(atom, text); result.append(tree)
SequenceAppend ==
    /\ Running /\ call = NoCall /\ ret # NoValue /\ AtTop("parse_sequence")
    /\ ret[2] # None
    /\ stack' = ReplaceTop([Top EXCEPT !.k = @ + 1, !.text = ret[2],
                                       !.result = ListConcat(@, ListOf(ret[1]))])
    /\ ret' = NoValue
    /\ steps' = Tick
    /\ UNCHANGED <<grammarVars, calls, args, call, cache, status, result>>

\* parse_sequence: if text is None: return Fail
SequenceFails ==
    /\ Running /\ call = NoCall /\ ret # NoValue /\ AtTop("parse_sequence")
    /\ ret[2] = None
    /\ ret' = SequenceFail(Top.result)
    /\ stack' = Pop
    /\ steps' = Tick
    /\ UNCHANGED <<grammarVars, calls, args, call, cache, status, result>>

\* parse: return parse_atom(start_symbol, text)
ParseReturn ==
    /\ Running /\ call = NoCall /\ ret # NoValue /\ stack = <<>>
    /\ status' = "returned"
    /\ result' = ret
    /\ ret' = NoValue
    /\ steps' = Tick
    /\ UNCHANGED <<grammarVars, calls, args, call, stack, cache>>

Step ==
    \/ MemoHit
    \/ EnterNonTerminal
    \/ MatchTerminal
    \/ Exhaust
    \/ TryAlternative
    \/ AllAlternativesFail
    \/ AlternativeSucceeds
    \/ AlternativeFails
    \/ SequenceCall
    \/ SequenceReturn
    \/ SequenceAppend
    \/ SequenceFails
    \/ ParseReturn

Next == Call \/ Step

\* one call of parse
Spec == Init /\ [][Next]_vars

\* calls of parse one after the other, with any arguments
NextSeries == CallInSeries \/ Step

SpecSeries == Init /\ [][NextSeries]_vars

NextMemo == Next \/ CallUnhashable \/ MemoFallback

SpecMemo == Init /\ [][NextMemo]_vars

\* ------------------------------------------------------------------ grammar()
\* The caller writes a description, line by line, and has grammar() compile it.
AddLine(l) ==
    /\ compiled = NotCompiled
    /\ Len(lines) < MaxLines
    /\ lines' = Append(lines, l)
    /\ UNCHANGED <<compiled, parseVars>>

AddRuleLine == \E l \in RuleLines : AddLine(l)

AddBlankLine == \E l \in BlankLines : AddLine(l)

AddMalformedLine == \E l \in MalformedLines : AddLine(l)

\* grammar(description)
Compile ==
    /\ compiled = NotCompiled
    /\ compiled' = grammar(Description(lines), DefaultWhitespace)
    /\ UNCHANGED <<lines, parseVars>>

NextGrammar == AddRuleLine \/ AddBlankLine \/ AddMalformedLine \/ Compile

SpecGrammar == Init /\ [][NextGrammar]_vars

\* ------------------------------------------------------------ left recursion
Keys(g) == DOMAIN g \ {WhitespaceKey}

\* whether relation R, iterated n times, leads from some key back to itself
RECURSIVE Closure(_, _)
Closure(R, n) ==
    IF n = 0 THEN R
    ELSE Closure(R \cup {<<x[1][1], x[2][2]>> :
                            x \in {y \in R \X R : y[1][2] = y[2][1]}}, n - 1)

Cyclic(g, R) == \E N \in Keys(g) : <<N, N>> \in Closure(R, Cardinality(Keys(g)))

\* N's alternative has M as its first atom
FirstAtomEdges(g) ==
    {e \in Keys(g) \X Keys(g) :
        \E i \in 1..Len(g[e[1]]) : g[e[1]][i] # <<>> /\ g[e[1]][i][1] = e[2]}

\* Left recursion as "the first atom is, directly or transitively, the
\* non-terminal itself".
LeftRecursiveFirstAtom(g) == Cyclic(g, FirstAtomEdges(g))

\* a terminal that can match without consuming anything: the whitespace
\* pattern and the atom both match the empty string
EmptyMatch(g, atom) ==
    Ends(RegexItems(g[WhitespaceKey]) \o RegexItems(atom), <<>>, 0) # <<>>

\* the non-terminals that can succeed without consuming anything
RECURSIVE NullableKeys(_, _, _)
NullableKeys(g, S, n) ==
    IF n = 0 THEN S
    ELSE NullableKeys(g,
            S \cup {N \in Keys(g) :
                      \E i \in 1..Len(g[N]) : \A k \in 1..Len(g[N][i]) :
                          \/ g[N][i][k] \in S
                          \/ g[N][i][k] \notin DOMAIN g /\ EmptyMatch(g, g[N][i][k])},
            n - 1)

CanBeEmpty(g, atom) ==
    \/ atom \in NullableKeys(g, {}, Cardinality(Keys(g)))
    \/ atom \notin DOMAIN g /\ EmptyMatch(g, atom)

\* N's alternative has M behind atoms that can all succeed without consuming
\* anything (behind none of them: M is its first atom)
NoProgressEdges(g) ==
    {e \in Keys(g) \X Keys(g) :
        \E i \in 1..Len(g[e[1]]) : \E k \in 1..Len(g[e[1]][i]) :
            /\ g[e[1]][i][k] = e[2]
            /\ \A j \in 1..(k - 1) : CanBeEmpty(g, g[e[1]][i][j])}

\* Left recursion as "the non-terminal reaches itself before any input is
\* consumed".
LeftRecursive(g) == Cyclic(g, NoProgressEdges(g))

\* ------------------------------------------------------------------ claims
IsSuffix(s, t) == Len(s) <= Len(t) /\ s = Slice(t, Len(t) - Len(s))
NonTerminalEntries == {key \in DOMAIN cache : key[1] \in DOMAIN G}
TerminalEntries == {key \in DOMAIN cache : key[1] \notin DOMAIN G}

\* what parse_sequence returns for the i-th alternative of atom on text
AlternativeOutcome(atom, text, i) ==
    DirectSequence(G, G[atom][i], 1, text, EmptyList, 1)
Succeeds(r) == r.raised = "" /\ r.value[2] # None
FailsCleanly(r) == r.raised = "" /\ r.value = Fail

OrderedChoice(atom, text, r) ==
    \/ \E i \in 1..Len(G[atom]) :
          /\ \A j \in 1..(i - 1) : FailsCleanly(AlternativeOutcome(atom, text, j))
          /\ Succeeds(AlternativeOutcome(atom, text, i))
          /\ r = <<<<"[">> \o Quoted(atom)
                         \o Elements(AlternativeOutcome(atom, text, i).value[1])
                         \o <<"]">>,
                   AlternativeOutcome(atom, text, i).value[2]>>
    \/ /\ \A i \in 1..Len(G[atom]) : FailsCleanly(AlternativeOutcome(atom, text, i))
       /\ r = Fail

\* C1: every result parse_atom returns for a non-terminal is that of the first
\* alternative, in declaration order, whose parse_sequence succeeds, wrapped as
\* [atom, children...], and is Fail only when every alternative fails.
C1_OrderedChoice ==
    \A key \in NonTerminalEntries : OrderedChoice(key[1], key[2], cache[key])

\* C1 witness: parse_atom returned the first alternative's result where a later
\* alternative succeeds too and consumes more of the input.
C1_Witness ==
    \E key \in NonTerminalEntries : \E i, j \in 1..Len(G[key[1]]) :
        /\ i < j
        /\ Succeeds(AlternativeOutcome(key[1], key[2], i))
        /\ Succeeds(AlternativeOutcome(key[1], key[2], j))
        /\ Len(AlternativeOutcome(key[1], key[2], j).value[2])
             < Len(AlternativeOutcome(key[1], key[2], i).value[2])
        /\ cache[key][2] = AlternativeOutcome(key[1], key[2], i).value[2]

Paired(r) == (r[1] = None) <=> (r[2] = None)

InItem(item, s) ==
    /\ \A i \in 1..Len(s) : UnitMatches(item.unit, s[i])
    /\ \/ item.quant = "*"
       \/ item.quant = "+" /\ Len(s) >= 1
       \/ item.quant = "?" /\ Len(s) <= 1
       \/ item.quant = "" /\ Len(s) = 1

RECURSIVE InLanguage(_, _)
InLanguage(items, s) ==
    IF items = <<>> THEN s = <<>>
    ELSE \E n \in 0..Len(s) :
            /\ InItem(Head(items), SubSeq(s, 1, n))
            /\ InLanguage(Tail(items), Slice(s, n))

\* text = whitespace + matched + rest, with whitespace in the language of the
\* whitespace pattern and matched in that of the atom
SplitsAs(atom, text, matched, rest) ==
    \E w \in 0..Len(text) :
        /\ text = SubSeq(text, 1, w) \o matched \o rest
        /\ InLanguage(RegexItems(G[WhitespaceKey]), SubSeq(text, 1, w))
        /\ InLanguage(RegexItems(atom), matched)

\* C3: for a terminal, a successful parse_atom returns the substring the atom
\* matched, without the whitespace before it, and the text behind the whole
\* match; it fails exactly when whitespace then atom match no prefix of text.
C3_TerminalMatch ==
    \A key \in TerminalEntries :
        IF cache[key] = Fail
        THEN \A m \in 0..Len(key[2]) : \A n \in m..Len(key[2]) :
                ~SplitsAs(key[1], key[2], SubSeq(key[2], m + 1, n), Slice(key[2], n))
        ELSE /\ cache[key][1] # None /\ cache[key][2] # None
             /\ cache[key][1] = Quoted(Elements(cache[key][1]))
             /\ SplitsAs(key[1], key[2], Elements(cache[key][1]), cache[key][2])

\* C3 witness: a terminal matched behind whitespace, which is in neither the
\* tree nor the remainder.
C3_Witness ==
    \E key \in TerminalEntries :
        /\ cache[key] # Fail
        /\ Elements(cache[key][1]) # <<>>
        /\ Len(Elements(cache[key][1])) + Len(cache[key][2]) < Len(key[2])

Outcome == IF status = "raised" THEN Raise(result[1]) ELSE Return(result)
Direct(atom, text) == DirectAtom(G, atom, text, 1)

\* C4: without left recursion, every cached result, hence every cache hit, is
\* what parse_atom computes for the key without the memo, and parse ends as
\* it ends without the memo.
C4_MemoTransparent ==
    ~LeftRecursiveFirstAtom(G) =>
        /\ \A key \in DOMAIN cache : Return(cache[key]) = Direct(key[1], key[2])
        /\ status \in {"returned", "raised"} => Outcome = Direct(args.start, args.text)

\* C4 witness: a call is about to be served from the cache.
C4_Witness ==
    /\ ~LeftRecursiveFirstAtom(G)
    /\ call # NoCall
    /\ MemoKey(call.atom, call.text) \in DOMAIN cache
    /\ cache[MemoKey(call.atom, call.text)] # Fail

\* C5: every call of parse starts with an empty cache, which then holds only
\* entries for the remaining input of this call, and ends as the same call
\* ends on its own, whatever calls came before it.
C5_FreshMemoPerCall ==
    /\ (Running /\ stack = <<>> /\ call # NoCall) => cache = <<>>
    /\ \A key \in DOMAIN cache :
          /\ IsSuffix(key[2], args.text)
          /\ key[1] \in DOMAIN G => Return(cache[key]) = Direct(key[1], key[2])
    /\ status \in {"returned", "raised"} => Outcome = Direct(args.start, args.text)

\* C5 witness: a second call of parse has returned a parse.
C5_Witness == calls >= 2 /\ status = "returned" /\ result # Fail /\ cache # <<>>

\* a call of parse_atom with the atom and text of a call that is still running
ReEntered ==
    /\ call # NoCall
    /\ \E i \in 1..Len(stack) :
          /\ stack[i].fn = "parse_atom"
          /\ stack[i].atom = call.atom
          /\ stack[i].text = call.text

RecursionExhausted == status = "raised" /\ result = <<"RecursionError">>

\* C8 as stated, with left recursion read as "reaches itself as the first
\* atom": parse never exhausts the recursion on a grammar without it.
C8_FirstAtomOnly == ~LeftRecursiveFirstAtom(G) => ~RecursionExhausted

\* some step of the running call can be taken
CanStep ==
    \/ call # NoCall
    \/ ret = NoValue /\ stack # <<>>
    \/ ret # NoValue

\* C8, amended: when no non-terminal reaches itself before input is consumed
\* (as a first atom, or behind atoms that can succeed on the empty string), no
\* call of parse_atom is re-entered, the recursion is not exhausted and parse
\* returns; a re-entered call finds no cache entry (the entry is written when
\* the call returns), so nothing stops the recursion short of exhaustion.  A
\* running call can always take a step and takes fewer than MaxSteps.
C8_Termination ==
    /\ ~LeftRecursive(G) => ~ReEntered /\ ~RecursionExhausted
    /\ ReEntered => MemoKey(call.atom, call.text) \notin DOMAIN cache
    /\ Running => CanStep /\ steps < MaxSteps

\* C8 witness: on a grammar without left recursion, a call that recursed as
\* deep as its text is long has returned a parse.
C8_Witness ==
    /\ ~LeftRecursive(G)
    /\ status = "returned" /\ result # Fail
    /\ \E key \in NonTerminalEntries :
          key[1] = args.start /\ key[2] = <<>> /\ args.text # <<>>

\* C9 as stated: a call whose arguments cannot be hashed ends as the wrapped
\* function ends on those arguments, and leaves the cache as it was.
C9_FallbackIsDirectCall ==
    (~args.hashable /\ status \in {"returned", "raised"}) =>
        /\ Outcome = Direct(args.start, args.text)
        /\ cache = <<>>

\* ---- grammar()
HasCompiled == compiled.raised # "none"
Compiles == compiled.raised = ""
IsRule(l) == l.kind = "rule"
\* the line as grammar() reads it, and what the claims say of it
RawLine(l) == ReplaceTabs(LineText(l))
IsEmpty(l) == RawLine(l) = <<>>
IsBlank(l) == \A i \in DOMAIN RawLine(l) : RawLine(l)[i] \in Whitespace
SeparatorAt(l) == FindFrom(RawLine(l), RuleSep, 0)
LacksSeparator(l) == SeparatorAt(l) = -1
EmptyRhs(l) ==
    /\ ~LacksSeparator(l)
    /\ \A i \in SeparatorAt(l) + Len(RuleSep) + 1 .. Len(RawLine(l)) :
          RawLine(l)[i] \in Whitespace
\* the ' | '-separated groups the right-hand side of a rule line is written
\* with, and those of them that are not empty
Groups(l) == l.alts
NonEmptyGroups(l) == SelectSeq(l.alts, LAMBDA alt : alt # <<>>)
\* every line of the description is empty or a rule
WellFormed == \A i \in DOMAIN lines : IsRule(lines[i]) \/ IsEmpty(lines[i])
Defines(i, lhs) == IsRule(lines[i]) /\ lines[i].lhs = lhs
\* the last line that defines lhs
LastLine(lhs) ==
    lines[CHOOSE i \in DOMAIN lines :
            /\ Defines(i, lhs)
            /\ \A j \in DOMAIN lines : j > i => ~Defines(j, lhs)]

\* C6 as stated: the grammar of a well-formed description has every
\* left-hand side as a key, with as many alternatives as its line has groups.
C6_CountOfEachLine ==
    (HasCompiled /\ WellFormed) =>
        /\ Compiles
        /\ \A i \in DOMAIN lines : IsRule(lines[i]) =>
              /\ lines[i].lhs \in DOMAIN compiled.value
              /\ Len(compiled.value[lines[i].lhs]) = Len(Groups(lines[i]))

\* C6, amended: the grammar of a well-formed description has every left-hand
\* side as a key, with as many alternatives as the last line that defines the
\* symbol has groups that are not empty.
C6_CompileRoundTrip ==
    (HasCompiled /\ WellFormed) =>
        /\ Compiles
        /\ \A i \in DOMAIN lines : IsRule(lines[i]) =>
              /\ lines[i].lhs \in DOMAIN compiled.value
              /\ Len(compiled.value[lines[i].lhs])
                    = Len(NonEmptyGroups(LastLine(lines[i].lhs)))

\* C6 witness: a well-formed description that defines a symbol twice, with
\* different numbers of alternatives, and has a tabbed line, has compiled.
C6_Witness ==
    /\ HasCompiled /\ WellFormed /\ Compiles
    /\ \E i, j \in DOMAIN lines :
          /\ i < j /\ IsRule(lines[i]) /\ Defines(j, lines[i].lhs)
          /\ Len(NonEmptyGroups(lines[i])) # Len(NonEmptyGroups(lines[j]))
          /\ lines[j].tabs

\* C7: when a line that is not blank has no ' => ', or has nothing but
\* whitespace to the right of it, grammar() raises and returns no grammar,
\* whatever the lines before and after it.
C7_MalformedAborts ==
    (HasCompiled /\ \E i \in DOMAIN lines :
                      /\ ~IsBlank(lines[i])
                      /\ LacksSeparator(lines[i]) \/ EmptyRhs(lines[i])) =>
        /\ compiled.raised = "ValueError"
        /\ DOMAIN compiled.value = {}

\* C7 witness: grammar() has raised on a malformed line between two rules.
C7_Witness ==
    /\ compiled.raised = "ValueError"
    /\ Len(lines) = 3
    /\ IsRule(lines[1]) /\ IsRule(lines[3])
    /\ ~IsBlank(lines[2])
    /\ LacksSeparator(lines[2]) \/ EmptyRhs(lines[2])

\* the lines the loop of grammar() runs over
ProcessedLines == DescriptionLines(ReplaceTabs(Description(lines)))
\* the description without its blank lines
NonBlankLines == SelectSeq(lines, LAMBDA l : ~IsBlank(l))

\* C10 as stated: every line grammar() processes is non-empty, and blank
\* lines count for nothing: grammar() ends as it ends on the description
\* without them.
C10_BlankLinesSkipped ==
    HasCompiled =>
        /\ \A i \in DOMAIN ProcessedLines : ProcessedLines[i] # <<>>
        /\ LET alone == grammar(Description(NonBlankLines), DefaultWhitespace)
           IN /\ compiled.raised = alone.raised
              /\ Compiles => compiled.value = alone.value

====
